---- MODULE Spec2Model ----
(***************************************************************************)
(* The unidler (src/unidler.py): a threaded HTTP server whose do_GET       *)
(* handler restores an idled deployment and then re-enables its ingress.   *)
(* Every request runs do_GET on its own thread (ThreadingMixIn), so the    *)
(* handler is modelled one step per point where another thread can run:    *)
(* every Kubernetes API call and every separate read or write of the       *)
(* class-level registry RequestHandler.unidling and of a session's fields. *)
(* The cluster (deployments, ingresses) is state shared with the runtime   *)
(* that reports available replicas and with other editors of ingresses.    *)
(***************************************************************************)
EXTENDS Integers, Sequences, FiniteSets, TLC

\* ------------------------------------------------------------- bounds
MaxRequests == 3
MaxFailures == 1
MaxGen == 1

MaxSessions == 3

\* ---------------------------------------------------------- constants
UNIDLER == "unidler"
INGRESS_CLASS_NAME == "istio"
DISABLED == "disabled"
Null == -1
OK204 == 204
OK202 == 202
NOT_FOUND == 404
SERVER_ERROR == 500
NoStatus == 0

Workers == {1, 2}
Hosts == {"a", "b"}

\* The spelling of each name the model uses, one character per element.
Chars(name) ==
    CASE name = "unidler" -> <<"u", "n", "i", "d", "l", "e", "r">>
      [] name = "unidler.default" ->
            <<"u", "n", "i", "d", "l", "e", "r", ".", "d", "e", "f">>
      [] name = "a" -> <<"a">>
      [] name = "b" -> <<"b">>
      [] OTHER -> <<>>

\* str.startswith
StartsWith_exact(s, p) == s = p

StartsWith(s, p) ==
    /\ Len(s) >= Len(p)
    /\ SubSeq(s, 1, Len(p)) = p

\* ------------------------------------------------ saved-state annotation
Digits == <<"0", "1", "2", "3", "4", "5", "6", "7", "8", "9">>

IsDigit(c) == \E i \in 1..10 : Digits[i] = c

DigitVal(c) == (CHOOSE i \in 1..10 : Digits[i] = c) - 1

\* str.split(','): the fields between the commas
RECURSIVE SplitComma(_, _, _)
SplitComma(s, cur, acc) ==
    IF s = <<>> THEN Append(acc, cur)
    ELSE IF Head(s) = "," THEN SplitComma(Tail(s), <<>>, Append(acc, cur))
    ELSE SplitComma(Tail(s), Append(cur, Head(s)), acc)

\* int(): defined on a non-empty run of digits
IsInt(s) == s /= <<>> /\ \A i \in 1..Len(s) : IsDigit(s[i])

RECURSIVE ParseInt(_, _)
ParseInt(s, acc) ==
    IF s = <<>> THEN acc ELSE ParseInt(Tail(s), acc * 10 + DigitVal(Head(s)))

\* restore_replicas: "idled_at, replicas = annotation.split(',')" raises
\* ValueError unless there are exactly two fields, and int(replicas) raises
\* ValueError unless the second is a number.
AnnotationParses(ann) ==
    LET f == SplitComma(ann, <<>>, <<>>)
    IN  Len(f) = 2 /\ IsInt(f[2])

AnnotationReplicas(ann) == ParseInt(SplitComma(ann, <<>>, <<>>)[2], 0)

\* ------------------------------------------------------- cluster objects
\* A deployment: metadata.labels has IDLED (idled), metadata.annotations has
\* IDLED_AT (hasAnn, with value ann), spec.replicas, status.available_replicas
\* (Null when the runtime has reported none).
Deployment(idled, hasAnn, ann, replicas, avail) ==
    [idled |-> idled, hasAnn |-> hasAnn, ann |-> ann,
     replicas |-> replicas, avail |-> avail]

\* An ingress other than the unidler's: metadata.name, the host of
\* spec.rules[0], the ingress.class annotation, and gen standing for the rest
\* of its content, which other editors change.
Ingress(name, host, class, gen) ==
    [set |-> TRUE, name |-> name, host |-> host, class |-> class, gen |-> gen]

NoIngress == [set |-> FALSE, name |-> "", host |-> "", class |-> "", gen |-> 0]

NoDeployment == Deployment(FALSE, FALSE, <<>>, 0, Null)

NoHolding == [rules |-> <<>>, tls |-> <<>>]

\* ---------------------------------------------------- pure functions
\* ingress_for_host: the first ingress, in the order the API lists them, that
\* is not named UNIDLER and whose first rule is for the hostname.
RouteOrder == <<"a", "b">>

RECURSIVE FirstMatch(_, _, _)
FirstMatch(rts, hostname, i) ==
    IF i > Len(RouteOrder) THEN NoIngress
    ELSE LET r == rts[RouteOrder[i]]
         IN  IF r.set /\ r.name /= UNIDLER /\ r.host = hostname
             THEN r
             ELSE FirstMatch(rts, hostname, i + 1)

ingress_for_host(rts, hostname) == FirstMatch(rts, hostname, 1)

\* is_idle / is_done: IDLED in deployment.metadata.labels
HasIdledLabel(d) == d.idled

\* int(self.deployment.status.available_replicas or 0)
AvailableReplicas(d) == IF d.avail = Null THEN 0 ELSE d.avail

\* line 114: if not self.started
start_guard_always(s) == TRUE

start_guard(s) == ~s.started

\* line 143: if not self.enabled
enable_guard_always(s) == TRUE

enable_guard(s) == ~s.enabled

\* the value is_done returns
is_done_result(d, replicas) == (~HasIdledLabel(d)) /\ replicas >= 1

\* restore_replicas, when the annotation is absent or parses
restore_replicas_default(d) ==
    IF d.hasAnn THEN [d EXCEPT !.replicas = AnnotationReplicas(d.ann)]
    ELSE [d EXCEPT !.replicas = 1]

restore_replicas(d) ==
    IF d.hasAnn THEN [d EXCEPT !.replicas = AnnotationReplicas(d.ann)] ELSE d

\* unmark_idled
unmark_idled(d) == [d EXCEPT !.idled = FALSE, !.hasAnn = FALSE, !.ann = <<>>]

\* remove_host_rule: filters spec.rules and nothing else
remove_host_rule(hostname, ing) ==
    [ing EXCEPT !.rules = SelectSeq(ing.rules, LAMBDA h : h /= hostname)]

\* enable_ingress
enable_ingress(ing) == [ing EXCEPT !.class = INGRESS_CLASS_NAME]

\* replace_namespaced_deployment: the object replaces the stored one; the
\* status is the runtime's and is not taken from the request.
ReplaceDeployment(stored, body) == [body EXCEPT !.avail = stored.avail]

\* patch_namespaced_ingress with the whole object as the patch
PatchIngress(stored, body) == body

\* ------------------------------------------------------------- state
VARIABLES
    deployments,   \* cluster: name -> deployment
    routes,        \* cluster: name -> ingress (set = it exists)
    holding,       \* cluster: the unidler's ingress: hosts of rules and of tls
    unidling,      \* RequestHandler.unidling: hostname -> session (0 = no key)
    sessions,      \* the Unidling objects created so far
    wk,            \* per worker thread: where do_GET stands and its locals
    nreq,          \* requests accepted so far
    nfail          \* API calls failed so far

vars == <<deployments, routes, holding, unidling, sessions, wk, nreq, nfail>>

NoHeaders == [host |-> "", xfh |-> ""]

\* Header sets a request can carry ("" = header absent).
Requests ==
    { [host |-> "", xfh |-> ""],
      [host |-> "", xfh |-> "a"],
      [host |-> "unidler.default", xfh |-> ""],
      [host |-> "a", xfh |-> ""],
      [host |-> "b", xfh |-> ""] }

\* Unidling.__init__.  History: the writes the object has issued, the start()
\* calls made on it (starts), those that went past the guard (passes), and
\* whether a start() call raised (aborted).
NewSession(hostname) ==
    [hostname |-> hostname, ingress |-> NoIngress, deployment |-> NoDeployment,
     started |-> FALSE, enabled |-> FALSE,
     depWrites |-> 0, holdWrites |-> 0, routeWrites |-> 0,
     starts |-> 0, passes |-> 0, aborted |-> FALSE,
     enPasses |-> 0, flips |-> 0]

\* A worker thread between requests.  The fields after hi are history of
\* its last request: the answer, the writes issued, whether an API call
\* raised, the deployment the request last read (fresh) and what is_done
\* returned, the branch of do_GET taken, and whether start() found the
\* session started and enable_ingress() found it enabled, and the
\* exception, other than an API call's, that ended the request.
IdleWorker ==
    [pc |-> "idle", req |-> NoHeaders, hostname |-> "", sid |-> 0,
     ing |-> NoIngress, replicas |-> 0, hi |-> NoHolding,
     status |-> NoStatus,
     depWrites |-> 0, holdWrites |-> 0, routeWrites |-> 0,
     failed |-> FALSE, fresh |-> NoDeployment, isDone |-> "",
     branch |-> "none", sawStarted |-> FALSE, noop |-> FALSE,
     sawEnabled |-> FALSE, raised |-> ""]

\* Deployments a host can have when the unidler process starts.  Idled:
\* saved replicas 2 and none available; saved replicas 1 and the last pod
\* still reported available; no saved-state annotation and no status yet; an
\* annotation without a comma.  And one that an earlier unidler process had
\* already restored before it was restarted: no label, a replica available.
InitDeployments ==
    { Deployment(TRUE, TRUE, <<"T", ",", "2">>, 0, 0),
      Deployment(TRUE, TRUE, <<"T", ",", "1">>, 0, 1),
      Deployment(TRUE, FALSE, <<>>, 0, Null),
      Deployment(TRUE, TRUE, <<"T">>, 0, 0),
      Deployment(FALSE, FALSE, <<>>, 1, 1) }

\* The registry is empty and no request is in progress.  Host a's ingress is
\* disabled and the unidler's ingress has its rule.  Host b has
\* a rule in the unidler's ingress too, and no ingress of its own.
Init ==
    /\ deployments \in [Hosts -> InitDeployments]
    /\ deployments["b"] = Deployment(TRUE, TRUE, <<"T", ",", "1">>, 0, 1)
    /\ routes = [h \in Hosts |->
                    IF h = "a" THEN Ingress(h, h, DISABLED, 0) ELSE NoIngress]
    /\ holding = [rules |-> <<"a", "b">>, tls |-> <<"a", "b">>]
    /\ unidling = [h \in Hosts |-> 0]
    /\ sessions = <<>>
    /\ wk = [w \in Workers |-> IdleWorker]
    /\ nreq = 0
    /\ nfail = 0

\* ------------------------------------------------------------ responses
\* respond / send_error: the request is over; the thread's locals are gone.
Respond(w, status) ==
    [wk[w] EXCEPT !.pc = "idle", !.status = status, !.sid = 0,
                  !.ing = NoIngress, !.replicas = 0, !.hi = NoHolding]

\* except Exception (lines 81-82) for an exception that no API call raised:
\* a KeyError of the registry, an AttributeError on a field that is still
\* None, the ValueError of restore_replicas.
Raises(w, exc) == [Respond(w, SERVER_ERROR) EXCEPT !.raised = exc]

CanFail == nfail < MaxFailures

\* An API call of worker w raises: the handler answers with `status`.
Fails(w, status) ==
    /\ CanFail
    /\ nfail' = nfail + 1
    /\ wk' = [wk EXCEPT ![w] = [Respond(w, status) EXCEPT !.failed = TRUE]]

\* Worker w moves on inside do_GET.
Step(w, rec) == wk' = [wk EXCEPT ![w] = rec]

Sess(w) == sessions[wk[w].sid]

SetSess(w, rec) == sessions' = [sessions EXCEPT ![wk[w].sid] = rec]

\* ------------------------------------------------------------- do_GET
\* lines 52-56: hostname = self.headers.get('Host', UNIDLER), and the no-op
\* answer when it starts with UNIDLER.
HostnameOf(r) == IF r.host = "" THEN UNIDLER ELSE r.host

Request(w, r) ==
    /\ wk[w].pc = "idle"
    /\ nreq < MaxRequests
    /\ nreq' = nreq + 1
    /\ LET fresh == [IdleWorker EXCEPT !.req = r, !.hostname = HostnameOf(r)]
       IN  IF StartsWith(Chars(HostnameOf(r)), Chars(UNIDLER))
           THEN Step(w, [fresh EXCEPT !.status = OK204])
           ELSE Step(w, [fresh EXCEPT !.pc = "check"])
    /\ UNCHANGED <<deployments, routes, holding, unidling, sessions, nfail>>

\* line 62: if hostname in self.unidling
Contains(w) ==
    /\ wk[w].pc = "check"
    /\ IF unidling[wk[w].hostname] /= 0
       THEN Step(w, [wk[w] EXCEPT !.pc = "get_isdone", !.branch = "known"])
       ELSE Step(w, [wk[w] EXCEPT !.pc = "idle_ing", !.branch = "new"])
    /\ UNCHANGED <<deployments, routes, holding, unidling, sessions, nreq, nfail>>

\* line 64: self.unidling[hostname].is_done() up to "if self.started"
GetIsDone(w) ==
    /\ wk[w].pc = "get_isdone"
    /\ LET s == unidling[wk[w].hostname]
       IN  IF s = 0
           THEN Step(w, Raises(w, "KeyError"))   \* KeyError
           ELSE IF sessions[s].started
           THEN Step(w, [wk[w] EXCEPT !.pc = "isdone_read", !.sid = s])
           ELSE Step(w, Respond(w, OK202))                   \* BAD STATE 2
    /\ UNCHANGED <<deployments, routes, holding, unidling, sessions, nreq, nfail>>

\* lines 131-132: self.deployment = deployment_for_ingress(self.ingress) and
\* the local replicas
IsDoneRead(w) ==
    /\ wk[w].pc = "isdone_read"
    /\ IF ~Sess(w).ingress.set
       THEN /\ Step(w, Raises(w, "AttributeError"))          \* None.metadata
            /\ UNCHANGED <<sessions, nfail>>
       ELSE \/ /\ Fails(w, NOT_FOUND)                        \* DeploymentNotFound
               /\ UNCHANGED sessions
            \/ /\ LET d == deployments[Sess(w).ingress.name]
                  IN  /\ SetSess(w, [Sess(w) EXCEPT !.deployment = d])
                      /\ Step(w, [wk[w] EXCEPT !.pc = "isdone_ret", !.fresh = d,
                                               !.replicas = AvailableReplicas(d)])
               /\ UNCHANGED nfail
    /\ UNCHANGED <<deployments, routes, holding, unidling, nreq>>

\* lines 133-137: the value returned, read from self.deployment once more
IsDoneReturn(w) ==
    /\ wk[w].pc = "isdone_ret"
    /\ IF is_done_result(Sess(w).deployment, wk[w].replicas)
       THEN Step(w, [wk[w] EXCEPT !.pc = "get_enable", !.isDone = "T"])
       ELSE Step(w, [Respond(w, OK202) EXCEPT !.isDone = "F"])
    /\ UNCHANGED <<deployments, routes, holding, unidling, sessions, nreq, nfail>>

\* line 65: self.unidling[hostname].enable_ingress() up to "if not self.enabled"
GetEnable(w) ==
    /\ wk[w].pc = "get_enable"
    /\ LET s == unidling[wk[w].hostname]
       IN  IF s = 0
           THEN /\ Step(w, Raises(w, "KeyError"))   \* KeyError
                /\ UNCHANGED sessions
           ELSE IF enable_guard(sessions[s])
           THEN /\ Step(w, [wk[w] EXCEPT !.pc = "en_set", !.sid = s,
                                         !.sawEnabled = sessions[s].enabled])
                /\ sessions' = [sessions EXCEPT ![s].enPasses = @ + 1]
           ELSE /\ Step(w, [wk[w] EXCEPT !.pc = "del", !.sid = s,
                                         !.sawEnabled = sessions[s].enabled])
                /\ UNCHANGED sessions                        \* BAD STATE 3
    /\ UNCHANGED <<deployments, routes, holding, unidling, nreq, nfail>>

\* line 144: self.enabled = True
EnSet(w) ==
    /\ wk[w].pc = "en_set"
    /\ SetSess(w, [Sess(w) EXCEPT !.enabled = TRUE,
                                  !.flips = IF Sess(w).enabled THEN @ ELSE @ + 1])
    /\ Step(w, [wk[w] EXCEPT !.pc = "en_readholding"])
    /\ UNCHANGED <<deployments, routes, holding, unidling, nreq, nfail>>

\* lines 146-147: ingress = unidler_ingress(); remove_host_rule(...)
EnReadHolding(w) ==
    /\ wk[w].pc = "en_readholding"
    /\ \/ Fails(w, SERVER_ERROR)
       \/ /\ Step(w, [wk[w] EXCEPT !.pc = "en_writeholding",
                         !.hi = remove_host_rule(Sess(w).hostname, holding)])
          /\ UNCHANGED nfail
    /\ UNCHANGED <<deployments, routes, holding, unidling, sessions, nreq>>

\* line 148: write_ingress_changes(ingress)
EnWriteHolding(w) ==
    /\ wk[w].pc = "en_writeholding"
    /\ \/ /\ Fails(w, SERVER_ERROR)
          /\ UNCHANGED <<holding, sessions>>
       \/ /\ holding' = PatchIngress(holding, wk[w].hi)
          /\ SetSess(w, [Sess(w) EXCEPT !.holdWrites = @ + 1])
          /\ Step(w, [wk[w] EXCEPT !.pc = "en_resolve", !.holdWrites = @ + 1])
          /\ UNCHANGED nfail
    /\ UNCHANGED <<deployments, routes, unidling, nreq>>

\* lines 151-152: ingress = ingress_for_host(self.hostname), a local that is
\* not used again, and enable_ingress(self.ingress)
EnResolve(w) ==
    /\ wk[w].pc = "en_resolve"
    /\ \/ /\ Fails(w, SERVER_ERROR)
          /\ UNCHANGED sessions
       \/ /\ UNCHANGED nfail
          /\ IF ~ingress_for_host(routes, Sess(w).hostname).set
             THEN /\ Step(w, Respond(w, NOT_FOUND))          \* IngressNotFound
                  /\ UNCHANGED sessions
             ELSE IF ~Sess(w).ingress.set
             THEN /\ Step(w, Raises(w, "AttributeError"))    \* None.metadata
                  /\ UNCHANGED sessions
             ELSE /\ SetSess(w, [Sess(w) EXCEPT !.ingress = enable_ingress(@)])
                  /\ Step(w, [wk[w] EXCEPT !.pc = "en_writeown",
                        !.ing = ingress_for_host(routes, Sess(w).hostname)])
    /\ UNCHANGED <<deployments, routes, holding, unidling, nreq>>

\* line 153: write_ingress_changes(self.ingress)
EnWriteOwn(w) ==
    /\ wk[w].pc = "en_writeown"
    /\ LET body == Sess(w).ingress
       IN  \/ /\ Fails(w, SERVER_ERROR)
              /\ UNCHANGED <<routes, sessions>>
           \/ /\ UNCHANGED nfail
              /\ IF ~routes[body.name].set
                 THEN /\ Step(w, [Respond(w, SERVER_ERROR) EXCEPT !.failed = TRUE])
                      /\ UNCHANGED <<routes, sessions>>
                 ELSE /\ routes' = [routes EXCEPT
                             ![body.name] = PatchIngress(@, body)]
                      /\ SetSess(w, [Sess(w) EXCEPT !.routeWrites = @ + 1])
                      /\ Step(w, [wk[w] EXCEPT !.pc = "del",
                                               !.routeWrites = @ + 1])
    /\ UNCHANGED <<deployments, holding, unidling, nreq>>

\* line 66: del self.unidling[hostname]
Del(w) ==
    /\ wk[w].pc = "del"
    /\ IF unidling[wk[w].hostname] = 0
       THEN /\ Step(w, Raises(w, "KeyError"))   \* KeyError
            /\ UNCHANGED unidling
       ELSE /\ unidling' = [unidling EXCEPT ![wk[w].hostname] = 0]
            /\ Step(w, Respond(w, OK202))
    /\ UNCHANGED <<deployments, routes, holding, sessions, nreq, nfail>>

\* line 70, is_idle: ingress_for_host(hostname)
IdleIng(w) ==
    /\ wk[w].pc = "idle_ing"
    /\ \/ Fails(w, SERVER_ERROR)
       \/ /\ UNCHANGED nfail
          /\ LET r == ingress_for_host(routes, wk[w].hostname)
             IN  IF ~r.set
                 THEN Step(w, Respond(w, NOT_FOUND))         \* IngressNotFound
                 ELSE Step(w, [wk[w] EXCEPT !.pc = "idle_dep", !.ing = r])
    /\ UNCHANGED <<deployments, routes, holding, unidling, sessions, nreq>>

\* line 70, is_idle: deployment_for_ingress(...) and the label test
IdleDep(w) ==
    /\ wk[w].pc = "idle_dep"
    /\ \/ Fails(w, NOT_FOUND)                                \* DeploymentNotFound
       \/ /\ UNCHANGED nfail
          /\ LET d == deployments[wk[w].ing.name]
             IN  IF HasIdledLabel(d)
                 THEN Step(w, [wk[w] EXCEPT !.pc = "create", !.ing = NoIngress,
                                           !.fresh = d])
                 ELSE Step(w, [Respond(w, OK202) EXCEPT !.fresh = d])
                                                             \* BAD STATE 4
    /\ UNCHANGED <<deployments, routes, holding, unidling, sessions, nreq>>

\* line 72: self.unidling[hostname] = Unidling(hostname, log)
Create(w) ==
    /\ wk[w].pc = "create"
    /\ sessions' = Append(sessions, NewSession(wk[w].hostname))
    /\ unidling' = [unidling EXCEPT ![wk[w].hostname] = Len(sessions) + 1]
    /\ Step(w, [wk[w] EXCEPT !.pc = "get_start"])
    /\ UNCHANGED <<deployments, routes, holding, nreq, nfail>>

\* line 73: self.unidling[hostname].start() up to "if not self.started"
GetStart(w) ==
    /\ wk[w].pc = "get_start"
    /\ LET s == unidling[wk[w].hostname]
       IN  IF s = 0
           THEN /\ Step(w, Raises(w, "KeyError"))   \* KeyError
                /\ UNCHANGED sessions
           ELSE IF start_guard(sessions[s])
           THEN /\ sessions' = [sessions EXCEPT ![s].starts = @ + 1,
                                                ![s].passes = @ + 1]
                /\ Step(w, [wk[w] EXCEPT !.pc = "start_set", !.sid = s,
                                         !.sawStarted = sessions[s].started])
           ELSE /\ sessions' = [sessions EXCEPT ![s].starts = @ + 1]
                /\ Step(w, [Respond(w, OK202) EXCEPT                \* BAD STATE 1
                               !.sawStarted = sessions[s].started, !.noop = TRUE])
    /\ UNCHANGED <<deployments, routes, holding, unidling, nreq, nfail>>

\* line 116: self.started = True
StartSet(w) ==
    /\ wk[w].pc = "start_set"
    /\ SetSess(w, [Sess(w) EXCEPT !.started = TRUE])
    /\ Step(w, [wk[w] EXCEPT !.pc = "start_ing"])
    /\ UNCHANGED <<deployments, routes, holding, unidling, nreq, nfail>>

\* line 117: self.ingress = ingress_for_host(self.hostname)
StartIng(w) ==
    /\ wk[w].pc = "start_ing"
    /\ \/ /\ Fails(w, SERVER_ERROR)
          /\ SetSess(w, [Sess(w) EXCEPT !.aborted = TRUE])
       \/ /\ UNCHANGED nfail
          /\ LET r == ingress_for_host(routes, Sess(w).hostname)
             IN  IF ~r.set
                 THEN /\ Step(w, Respond(w, NOT_FOUND))      \* IngressNotFound
                      /\ SetSess(w, [Sess(w) EXCEPT !.aborted = TRUE])
                 ELSE /\ SetSess(w, [Sess(w) EXCEPT !.ingress = r])
                      /\ Step(w, [wk[w] EXCEPT !.pc = "start_dep"])
    /\ UNCHANGED <<deployments, routes, holding, unidling, nreq>>

\* line 118: self.deployment = deployment_for_ingress(self.ingress)
StartDep(w) ==
    /\ wk[w].pc = "start_dep"
    /\ \/ /\ Fails(w, NOT_FOUND)                             \* DeploymentNotFound
          /\ SetSess(w, [Sess(w) EXCEPT !.aborted = TRUE])
       \/ /\ UNCHANGED nfail
          /\ SetSess(w, [Sess(w) EXCEPT
                 !.deployment = deployments[Sess(w).ingress.name]])
          /\ Step(w, [wk[w] EXCEPT !.pc = "start_restore",
                         !.fresh = deployments[Sess(w).ingress.name]])
    /\ UNCHANGED <<deployments, routes, holding, unidling, nreq>>

\* line 120: restore_replicas(self.deployment, self.log)
StartRestore(w) ==
    /\ wk[w].pc = "start_restore"
    /\ LET d == Sess(w).deployment
       IN  IF d.hasAnn /\ ~AnnotationParses(d.ann)
           THEN /\ Step(w, Raises(w, "ValueError")) \* ValueError
                /\ SetSess(w, [Sess(w) EXCEPT !.aborted = TRUE])
           ELSE /\ SetSess(w, [Sess(w) EXCEPT !.deployment = restore_replicas(d)])
                /\ Step(w, [wk[w] EXCEPT !.pc = "start_unmark"])
    /\ UNCHANGED <<deployments, routes, holding, unidling, nreq, nfail>>

\* line 121: unmark_idled(self.deployment, self.log)
StartUnmark(w) ==
    /\ wk[w].pc = "start_unmark"
    /\ SetSess(w, [Sess(w) EXCEPT !.deployment = unmark_idled(@)])
    /\ Step(w, [wk[w] EXCEPT !.pc = "start_write"])
    /\ UNCHANGED <<deployments, routes, holding, unidling, nreq, nfail>>

\* line 125: write_deployment_changes(self.deployment, self.log)
StartWrite(w) ==
    /\ wk[w].pc = "start_write"
    /\ \/ /\ Fails(w, SERVER_ERROR)
          /\ SetSess(w, [Sess(w) EXCEPT !.aborted = TRUE])
          /\ UNCHANGED deployments
       \/ /\ UNCHANGED nfail
          /\ deployments' = [deployments EXCEPT ![Sess(w).ingress.name] =
                                ReplaceDeployment(@, Sess(w).deployment)]
          /\ SetSess(w, [Sess(w) EXCEPT !.depWrites = @ + 1])
          /\ Step(w, [Respond(w, OK202) EXCEPT !.depWrites = @ + 1])
    /\ UNCHANGED <<routes, holding, unidling, nreq>>

\* -------------------------------------------------------- environment
\* The runtime reports a replica available once one is wanted, and none once
\* none is wanted.
RuntimeReports(h) ==
    /\ \/ /\ deployments[h].replicas >= 1
          /\ AvailableReplicas(deployments[h]) < 1
          /\ deployments' = [deployments EXCEPT ![h].avail = 1]
       \/ /\ deployments[h].replicas = 0
          /\ AvailableReplicas(deployments[h]) >= 1
          /\ deployments' = [deployments EXCEPT ![h].avail = 0]
    /\ UNCHANGED <<routes, holding, unidling, sessions, wk, nreq, nfail>>

\* Somebody else edits a host's ingress.
RouteEdited(h) ==
    /\ routes[h].set
    /\ routes[h].gen < MaxGen
    /\ routes' = [routes EXCEPT ![h].gen = @ + 1]
    /\ UNCHANGED <<deployments, holding, unidling, sessions, wk, nreq, nfail>>

\* Somebody else deletes a host's ingress.
RouteRemoved(h) ==
    /\ routes[h].set
    /\ routes' = [routes EXCEPT ![h] = NoIngress]
    /\ UNCHANGED <<deployments, holding, unidling, sessions, wk, nreq, nfail>>

\* ------------------------------------------------------- specification
Next ==
    \/ \E w \in Workers : \E r \in Requests : Request(w, r)
    \/ \E w \in Workers : Contains(w)
    \/ \E w \in Workers : GetIsDone(w)
    \/ \E w \in Workers : IsDoneRead(w)
    \/ \E w \in Workers : IsDoneReturn(w)
    \/ \E w \in Workers : GetEnable(w)
    \/ \E w \in Workers : EnSet(w)
    \/ \E w \in Workers : EnReadHolding(w)
    \/ \E w \in Workers : EnWriteHolding(w)
    \/ \E w \in Workers : EnResolve(w)
    \/ \E w \in Workers : EnWriteOwn(w)
    \/ \E w \in Workers : Del(w)
    \/ \E w \in Workers : IdleIng(w)
    \/ \E w \in Workers : IdleDep(w)
    \/ \E w \in Workers : Create(w)
    \/ \E w \in Workers : GetStart(w)
    \/ \E w \in Workers : StartSet(w)
    \/ \E w \in Workers : StartIng(w)
    \/ \E w \in Workers : StartDep(w)
    \/ \E w \in Workers : StartRestore(w)
    \/ \E w \in Workers : StartUnmark(w)
    \/ \E w \in Workers : StartWrite(w)
    \/ \E h \in Hosts : RuntimeReports(h)
    \/ \E h \in Hosts : RouteEdited(h)
    \/ \E h \in Hosts : RouteRemoved(h)

Spec == Init /\ [][Next]_vars

\* ------------------------------------------- specification for liveness
\* Host a is idled with a saved replica count >= 1, and no API call raises:
\* the failures that may happen have all happened.
LiveInit ==
    /\ deployments \in [Hosts -> InitDeployments]
    /\ deployments["a"].idled /\ deployments["a"].hasAnn
    /\ AnnotationParses(deployments["a"].ann)
    /\ AnnotationReplicas(deployments["a"].ann) >= 1
    /\ deployments["b"] = Deployment(TRUE, TRUE, <<"T", ",", "1">>, 0, 1)
    /\ routes = [h \in Hosts |->
                    IF h = "a" THEN Ingress(h, h, DISABLED, 0) ELSE NoIngress]
    /\ holding = [rules |-> <<"a", "b">>, tls |-> <<"a", "b">>]
    /\ unidling = [h \in Hosts |-> 0]
    /\ sessions = <<>>
    /\ wk = [w \in Workers |-> IdleWorker]
    /\ nreq = 0
    /\ nfail = MaxFailures

\* do_GET lines 52-56 with requests arriving for ever; they are taken while
\* fewer than MaxSessions Unidling objects have been made.
LiveRequest(w, r) ==
    /\ wk[w].pc = "idle"
    /\ Len(sessions) < MaxSessions
    /\ LET fresh == [IdleWorker EXCEPT !.req = r, !.hostname = HostnameOf(r)]
       IN  IF StartsWith(Chars(HostnameOf(r)), Chars(UNIDLER))
           THEN Step(w, [fresh EXCEPT !.status = OK204])
           ELSE Step(w, [fresh EXCEPT !.pc = "check"])
    /\ UNCHANGED <<deployments, routes, holding, unidling, sessions, nreq, nfail>>

\* One step of the thread that handles a request.
WorkerStep(w) ==
    \/ Contains(w) \/ GetIsDone(w) \/ IsDoneRead(w) \/ IsDoneReturn(w)
    \/ GetEnable(w) \/ EnSet(w) \/ EnReadHolding(w) \/ EnWriteHolding(w)
    \/ EnResolve(w) \/ EnWriteOwn(w) \/ Del(w)
    \/ IdleIng(w) \/ IdleDep(w) \/ Create(w)
    \/ GetStart(w) \/ StartSet(w) \/ StartIng(w) \/ StartDep(w)
    \/ StartRestore(w) \/ StartUnmark(w) \/ StartWrite(w)

LiveNext ==
    \/ \E w \in Workers : \E r \in Requests : LiveRequest(w, r)
    \/ \E w \in Workers : Contains(w)
    \/ \E w \in Workers : GetIsDone(w)
    \/ \E w \in Workers : IsDoneRead(w)
    \/ \E w \in Workers : IsDoneReturn(w)
    \/ \E w \in Workers : GetEnable(w)
    \/ \E w \in Workers : EnSet(w)
    \/ \E w \in Workers : EnReadHolding(w)
    \/ \E w \in Workers : EnWriteHolding(w)
    \/ \E w \in Workers : EnResolve(w)
    \/ \E w \in Workers : EnWriteOwn(w)
    \/ \E w \in Workers : Del(w)
    \/ \E w \in Workers : IdleIng(w)
    \/ \E w \in Workers : IdleDep(w)
    \/ \E w \in Workers : Create(w)
    \/ \E w \in Workers : GetStart(w)
    \/ \E w \in Workers : StartSet(w)
    \/ \E w \in Workers : StartIng(w)
    \/ \E w \in Workers : StartDep(w)
    \/ \E w \in Workers : StartRestore(w)
    \/ \E w \in Workers : StartUnmark(w)
    \/ \E w \in Workers : StartWrite(w)
    \/ \E h \in Hosts : RuntimeReports(h)

\* Every thread that is handling a request goes on running, and the runtime
\* goes on reporting.
LiveSpec ==
    /\ LiveInit
    /\ [][LiveNext]_vars
    /\ \A w \in Workers : WF_vars(WorkerStep(w))
    /\ \A h \in Hosts : WF_vars(RuntimeReports(h))

\* ---------------------------------------------------------- properties
SessionIds == 1..Len(sessions)

\* A session object is in use: the registry holds it or a thread is in one of
\* its methods.
InUse(i) ==
    \/ unidling[sessions[i].hostname] = i
    \/ \E w \in Workers : wk[w].sid = i

\* No thread is inside a method of session i.
Quiet(i) == \A w \in Workers : wk[w].sid /= i

\* C1: under any interleaving of requests for one hostname, at most one
\* Unidling session object exists for the hostname at a time: no second object
\* is created for, and none replaces, one the registry holds or a thread uses.
C1_AtMostOneSessionPerHost ==
    \A i, j \in SessionIds :
        (i /= j /\ sessions[i].hostname = sessions[j].hostname)
            => ~(InUse(i) /\ InUse(j))

\* C2: under any interleaving of requests for one idled hostname, the
\* deployment replace that start() issues is issued at most once for the host.
RestoringWrites(h) ==
    LET RECURSIVE Sum(_)
        Sum(i) == IF i = 0 THEN 0
                  ELSE Sum(i - 1) +
                       (IF sessions[i].hostname = h THEN sessions[i].depWrites ELSE 0)
    IN  Sum(Len(sessions))

C2_RestoringWriteAtMostOnce == \A h \in Hosts : RestoringWrites(h) <= 1

\* C3: start() called again on a session that is started is a silent no-op;
\* calls made one after the other on one session issue exactly one deployment
\* write; a request for a host whose session is registered issues none.
C3_StartIdempotent ==
    /\ \A w \in Workers :
          /\ wk[w].sawStarted => (wk[w].noop /\ wk[w].depWrites = 0)
          /\ (wk[w].noop /\ wk[w].pc = "idle") => wk[w].status = OK202
          /\ wk[w].branch = "known" => wk[w].depWrites = 0
          /\ wk[w].depWrites <= 1
    /\ \A i \in SessionIds :
          /\ sessions[i].passes <= 1 => sessions[i].depWrites <= 1
          /\ (Quiet(i) /\ sessions[i].passes = 1 /\ ~sessions[i].aborted)
                => sessions[i].depWrites = 1

\* C3's case: a second start() on a session has returned without writing and
\* the session has issued its one write.
C3_Witness ==
    \E i \in SessionIds :
        /\ sessions[i].starts = 2
        /\ sessions[i].passes = 1
        /\ sessions[i].depWrites = 1
        /\ \E w \in Workers : wk[w].noop /\ wk[w].sawStarted

\* Worker w takes a step of do_GET from one of the places pcs.
Moves(w, pcs) == wk[w].pc \in pcs /\ wk'[w] /= wk[w]

\* Worker w's step issues a write of the given kind.
WritesDeployment(w) == wk'[w].depWrites = wk[w].depWrites + 1

WritesHolding(w) == wk'[w].holdWrites = wk[w].holdWrites + 1

WritesRoute(w) == wk'[w].routeWrites = wk[w].routeWrites + 1

Ready(d) == ~d.idled /\ d.avail /= Null /\ d.avail >= 1

\* C4: the write that removes a hostname's rule from the unidler's ingress is
\* issued only after the request's own fresh read of the hostname's deployment
\* found the idled label absent and available_replicas >= 1, and not while
\* the deployment is idled or has no available replica.
C4_RuleRemovedOnlyWhenReady ==
    [][\A w \in Workers :
          (Moves(w, {"en_writeholding"}) /\ WritesHolding(w))
              => /\ Ready(wk[w].fresh)
                 /\ Ready(deployments[wk[w].hostname])]_vars

\* C5: on a started session is_done returns true exactly when the deployment
\* it has just read has no idled label and available_replicas >= 1 (an
\* unreported value counting as 0), and it changes neither the session's
\* started and enabled flags nor any cluster object.
C5_IsDoneContract ==
    [][\A w \in Workers :
          /\ Moves(w, {"isdone_ret"})
                => ((wk'[w].isDone = "T") <=> Ready(wk[w].fresh))
          /\ Moves(w, {"isdone_read", "isdone_ret"})
                => /\ UNCHANGED <<deployments, routes, holding>>
                   /\ \A i \in SessionIds :
                         /\ sessions'[i].started = sessions[i].started
                         /\ sessions'[i].enabled = sessions[i].enabled]_vars

\* The saved-state annotation "<timestamp>,<n>" for a one-digit n.
FormatAnnotation(n) == <<"T", ",", Digits[n + 1]>>

\* C6: for an idled deployment whose annotation is "<timestamp>,<n>", the
\* deployment that start() persists has spec.replicas = n, no idled label and
\* no annotation, all in the one write.
C6_StartRestoresSavedReplicas ==
    [][\A w \in Workers :
          (Moves(w, {"start_write"}) /\ WritesDeployment(w))
              => LET pre  == deployments[wk[w].hostname]
                     post == deployments'[wk[w].hostname]
                 IN  \A n \in 0..9 :
                        (pre.idled /\ pre.hasAnn /\ pre.ann = FormatAnnotation(n))
                            => /\ post.replicas = n
                               /\ ~post.idled
                               /\ ~post.hasAnn]_vars

\* C7: enable_ingress for hostname h takes out of the unidler's ingress the
\* rules whose host is h and no other rule, and what it persists for the
\* hostname's own ingress is that ingress, as the call resolved it, with the
\* ingress.class annotation changed and nothing else.
C7_EnableIngressFrame ==
    [][\A w \in Workers :
          /\ (Moves(w, {"en_writeholding"}) /\ WritesHolding(w))
                => holding'.rules =
                      SelectSeq(holding.rules, LAMBDA x : x /= wk[w].hostname)
          /\ (Moves(w, {"en_writeown"}) /\ WritesRoute(w))
                => routes'[wk[w].hostname] =
                      [wk[w].ing EXCEPT !.class = INGRESS_CLASS_NAME]]_vars

\* C8: after remove_host_rule(h, ingress) the ingress has no rule whose host
\* is h and no tls entry whose hosts contain h.
C8_RemoveHostRuleClearsTls ==
    \A w \in Workers :
        wk[w].pc = "en_writeholding"
            => /\ \A i \in 1..Len(wk[w].hi.rules) : wk[w].hi.rules[i] /= wk[w].hostname
               /\ \A i \in 1..Len(wk[w].hi.tls) : wk[w].hi.tls[i] /= wk[w].hostname

\* C9: a request answered 404 has issued no write to any deployment or
\* ingress.
C9_NotFoundWritesNothing ==
    \A w \in Workers :
        (wk[w].pc = "idle" /\ wk[w].status = NOT_FOUND)
            => /\ wk[w].depWrites = 0
               /\ wk[w].holdWrites = 0
               /\ wk[w].routeWrites = 0

\* C10: a request is processed for the forwarded-host header's value when
\* the header is present, the Host header being the fallback; a request with
\* only a forwarded-host header is not answered as having no hostname.
C10_ForwardedHostIsHostname ==
    \A w \in Workers :
        wk[w].req.xfh /= ""
            => /\ wk[w].hostname = wk[w].req.xfh
               /\ wk[w].status /= OK204

\* C11: when the registry is empty and a request finds the host's deployment
\* without the idled label and with available_replicas >= 1 (the process was
\* restarted mid-restoration), that request does the cutover: the host's rule
\* is out of the unidler's ingress and its own ingress is activated.
C11_RestartProceedsToCutover ==
    \A w \in Workers :
        (wk[w].pc = "idle" /\ wk[w].branch = "new" /\ wk[w].status = OK202
            /\ Ready(wk[w].fresh))
            => /\ \A i \in 1..Len(holding.rules) : holding.rules[i] /= wk[w].hostname
               /\ routes[wk[w].hostname].class = INGRESS_CLASS_NAME

\* C12: the ingress that enable_ingress() persists in its second write is the
\* one it resolved in that call: an edit made to the hostname's ingress in the
\* cluster after start() resolved it (a later generation) is in the object
\* written, not undone by it.
C12_PersistsReResolvedIngress ==
    [][\A w \in Workers :
          (Moves(w, {"en_writeown"}) /\ WritesRoute(w))
              => /\ routes'[wk[w].hostname].gen = wk[w].ing.gen
                 /\ routes'[wk[w].hostname].gen >= routes[wk[w].hostname].gen]_vars

\* C13: over the enable_ingress() calls made one after another on one
\* session, also when an earlier call raised between its two writes, every
\* call after the first is a no-op: a call that finds the session enabled
\* writes no ingress, the enabled flag goes from False to True once and is
\* set exactly when a call went past the guard, and one call past the guard
\* writes the unidler's ingress and the hostname's ingress at most once each.
C13_EnableIngressIdempotent ==
    /\ \A w \in Workers :
          /\ wk[w].sawEnabled => (wk[w].holdWrites = 0 /\ wk[w].routeWrites = 0)
          /\ wk[w].holdWrites <= 1
          /\ wk[w].routeWrites <= 1
    /\ \A i \in SessionIds :
          /\ sessions[i].flips <= 1
          /\ sessions[i].enabled <=> sessions[i].flips = 1
          /\ sessions[i].enabled => sessions[i].enPasses >= 1
          /\ sessions[i].enPasses <= 1
                => (sessions[i].holdWrites <= 1 /\ sessions[i].routeWrites <= 1)
          /\ sessions[i].routeWrites <= sessions[i].holdWrites

\* A second enable_ingress() call found the session enabled after the first
\* call had raised between its two writes, and the request is over.
C13_Witness ==
    \E w \in Workers :
        /\ wk[w].pc = "idle" /\ wk[w].sawEnabled /\ wk[w].status = OK202
        /\ \E i \in SessionIds :
              /\ sessions[i].enabled /\ sessions[i].enPasses = 1
              /\ sessions[i].holdWrites = 1 /\ sessions[i].routeWrites = 0
              /\ unidling[sessions[i].hostname] = 0

\* C14: whatever the interleaving of concurrent requests for one hostname
\* that find its deployment ready, the cutover is done once: for the
\* hostname's session the write of the unidler's ingress and the write of the
\* hostname's own ingress are each issued at most once.
C14_CutoverOnce ==
    \A i \in SessionIds : \A w1, w2 \in Workers :
        (/\ w1 /= w2
         /\ wk[w1].hostname = sessions[i].hostname
         /\ wk[w2].hostname = sessions[i].hostname
         /\ wk[w1].isDone = "T" /\ Ready(wk[w1].fresh)
         /\ wk[w2].isDone = "T" /\ Ready(wk[w2].fresh))
            => /\ sessions[i].holdWrites <= 1
               /\ sessions[i].routeWrites <= 1

\* C15: a request that carries no hostname at all, or whose hostname names
\* the unidler's own service, is answered 204 at once and is a no-op: the
\* registry, every session, every deployment and ingress are unchanged, no
\* API call is made (the handler is not left inside any call and no call
\* has raised) and the request has taken no branch of the cutover logic.
C15_SelfRequestIsNoOp ==
    [][\A w \in Workers :
          (/\ wk[w].pc = "idle"
           /\ wk'[w] /= wk[w]
           /\ \/ wk'[w].req = [host |-> "", xfh |-> ""]
              \/ wk'[w].req.host = "unidler.default")
              => /\ wk'[w].pc = "idle"
                 /\ wk'[w].status = OK204
                 /\ wk'[w].branch = "none"
                 /\ wk'[w].sid = 0
                 /\ ~wk'[w].failed
                 /\ wk'[w].depWrites = 0
                 /\ wk'[w].holdWrites = 0
                 /\ wk'[w].routeWrites = 0
                 /\ UNCHANGED <<deployments, routes, holding, unidling,
                                sessions, nfail>>]_vars

\* A request for the unidler's own service has been answered 204 while a
\* session for host a is registered and still is.
C15_Witness ==
    \E w \in Workers :
        /\ wk[w].pc = "idle"
        /\ wk[w].req.host = "unidler.default"
        /\ wk[w].status = OK204
        /\ unidling["a"] /= 0

\* C16: when the deployment start() read has no saved-state annotation,
\* start() restores nothing and guesses no default: the deployment it writes
\* has the spec.replicas that the deployment had when start() read it.
C16_NoAnnotationKeepsReplicas ==
    [][\A w \in Workers :
          (/\ Moves(w, {"start_write"})
           /\ WritesDeployment(w)
           /\ ~wk[w].fresh.hasAnn)
              => /\ deployments'[wk[w].hostname].replicas = wk[w].fresh.replicas
                 /\ deployments'[wk[w].hostname].replicas
                       = deployments[wk[w].hostname].replicas]_vars

\* start() has written an idled deployment that had no annotation: the label
\* is gone and spec.replicas is still 0.
C16_Witness ==
    \E w \in Workers :
        /\ wk[w].pc = "idle" /\ wk[w].branch = "new" /\ wk[w].depWrites = 1
        /\ wk[w].fresh.idled /\ ~wk[w].fresh.hasAnn
        /\ ~deployments[wk[w].hostname].idled
        /\ deployments[wk[w].hostname].replicas = 0

\* C17: when no API call raises, requests for host a keep arriving and the
\* runtime reports a replica available once spec.replicas >= 1 is persisted,
\* host a, idled with a saved replica count >= 1, eventually has its rule out
\* of the unidler's ingress, its own ingress activated and its session out
\* of the registry, whatever the interleaving.
CutOver(h) ==
    /\ \A i \in 1..Len(holding.rules) : holding.rules[i] /= h
    /\ routes[h].class = INGRESS_CLASS_NAME
    /\ unidling[h] = 0

C17_EventuallyCutOver ==
    ([]<>(\E w \in Workers : wk[w].pc = "check" /\ wk[w].hostname = "a"))
        => <>CutOver("a")

\* C18: a request is answered 500 only if an API call raised during it (or
\* the saved-state annotation it read could not be parsed): while every API
\* call succeeds, no interleaving of concurrent requests for one hostname
\* makes a request end in a 500.
C18_ServerErrorOnlyOnApiFailure ==
    \A w \in Workers :
        (wk[w].pc = "idle" /\ wk[w].status = SERVER_ERROR)
            => (wk[w].failed \/ wk[w].raised = "ValueError")

\* C19: a session is deleted from the registry only after both writes of
\* the cutover have been persisted for its hostname: at the delete the
\* session has written the unidler's ingress and the hostname's ingress, the
\* hostname's rule is out of the unidler's ingress and its own ingress, if it
\* still exists, is activated.  So after an enable_ingress() that raised
\* part-way no later request deletes the session.
C19_RemovedOnlyAfterCutover ==
    [][\A w \in Workers :
          (/\ Moves(w, {"del"})
           /\ unidling[wk[w].hostname] /= 0
           /\ unidling'[wk[w].hostname] = 0)
              => LET s == sessions[unidling[wk[w].hostname]]
                     h == wk[w].hostname
                 IN  /\ s.holdWrites >= 1
                     /\ s.routeWrites >= 1
                     /\ \A i \in 1..Len(holding.rules) : holding.rules[i] /= h
                     /\ routes[h].set => routes[h].class = INGRESS_CLASS_NAME]_vars

\* C20: a start() call that raised part-way does not strand the hostname:
\* once no thread is inside start() any more, the session is not left in the
\* registry with started = True and the restoring write never issued (so that
\* a later request calls start() again and the deployment gets restored).
C20_FailedStartNotStranded ==
    \A i \in SessionIds :
        (/\ sessions[i].aborted
         /\ unidling[sessions[i].hostname] = i
         /\ \A w \in Workers :
               wk[w].sid = i
                  => wk[w].pc \notin {"start_set", "start_ing", "start_dep",
                                      "start_restore", "start_unmark",
                                      "start_write"})
            => ~(sessions[i].started /\ sessions[i].depWrites = 0)

====
